---- MODULE Spec2Model ----
(***************************************************************************)
(* State-machine model of the upload / analysis orchestration of the       *)
(* dashboard front end: UploadSection (the orchestrator), localStorage     *)
(* (the period store and the token), the window event                      *)
(* "analysis-period-changed" (the bus), the Dashboard with its three       *)
(* observer panels, and the service clients uploadService / filesService / *)
(* authService.                                                            *)
(***************************************************************************)
EXTENDS Integers, Sequences, FiniteSets, TLC

\* ------------------------------------------------------------------ bounds

\* Upload/analyse cycles that may be in flight at once (the current one and
\* those of UploadSection instances that have been unmounted meanwhile).
MaxCycles == 1
\* Requests of one panel whose answers are awaited at once: when a panel sends
\* one more, the oldest of them is taken never to answer.
MaxInFlight == 2

\* ------------------------------------------------------- environment values

\* new Date().getFullYear() and new Date().getMonth() of the session.
NowYear == 2026
NowMonthIndex == 10

MOIS ==
  << "janvier", "fevrier", "mars", "avril", "mai", "juin",
     "juillet", "aout", "septembre", "octobre", "novembre", "decembre" >>

monthNameFR == MOIS[NowMonthIndex + 1]

\* The months and years the user picks in the selectors (a subset of MOIS and
\* of anneesAutour() = NowYear-5 .. NowYear+2).
Months == { monthNameFR }
Years  == { NowYear - 1, NowYear }

\* The file types the user picks (a subset of TYPES).
TYPES == { "ventes_journalieres" }

\* File names, as sequences of characters.
NameUpper == << "R", ".", "X", "L", "S", "X" >>
NameLower == << "r", ".", "x", "l", "s", "x" >>
NameCsv   == << "r", ".", "c", "s", "v" >>
NameBare  == << "x", "l", "s", "x" >>

\* The file lists the user selects (input change, drop) or a caller passes:
\* none, one file that is no .xlsx, two .xlsx in different letter case, an
\* .xlsx followed by a name that has the letters but not the extension.
FileLists ==
  { << >>, << NameCsv >>, << NameLower, NameUpper >>, << NameUpper, NameBare >> }

\* Tokens the backend issues: JWTs whose payload carries a role.
Tokens == { "jwt.comptable", "jwt.dg" }
NoToken == ""

\* ------------------------------------------------- JavaScript conversions

Digits == << "0", "1", "2", "3", "4", "5", "6", "7", "8", "9" >>

\* String(n) for a non-negative integer n: its decimal digits.
RECURSIVE String(_)
String(n) ==
  IF n < 10 THEN << Digits[n + 1] >>
  ELSE Append(String(n \div 10), Digits[(n % 10) + 1])

DigitValue(c) == CHOOSE d \in 0..9 : Digits[d + 1] = c

\* Number(s) for a string of decimal digits; Number("") and Number(null) are 0.
RECURSIVE Number(_)
Number(s) ==
  IF Len(s) = 0 THEN 0
  ELSE Number(SubSeq(s, 1, Len(s) - 1)) * 10 + DigitValue(s[Len(s)])

\* c.toLowerCase() on the characters that occur in the file names.
LowerChar(c) ==
  CASE c = "R" -> "r"
    [] c = "X" -> "x"
    [] c = "L" -> "l"
    [] c = "S" -> "s"
    [] c = "C" -> "c"
    [] c = "V" -> "v"
    [] OTHER   -> c

toLowerCase(s) == [ i \in 1..Len(s) |-> LowerChar(s[i]) ]

endsWith(s, suffix) ==
  /\ Len(s) >= Len(suffix)
  /\ SubSeq(s, Len(s) - Len(suffix) + 1, Len(s)) = suffix

DotXlsx == << ".", "x", "l", "s", "x" >>

\* ---------------------------------------------------------------- messages

NoMessage == ""
MsgFields == "Veuillez selectionner le type de fichier, le mois et l'annee."
MsgNoFile == "Veuillez selectionner au moins un fichier .xlsx."
MsgExt    == "Seuls les fichiers .xlsx sont autorises"
MsgSuccess == "Chargement termine."
MsgOperation == "Erreur durant l'operation (upload/ETL/IA)."

\* How a request fails: the backend answers non-2xx with a detail, or the
\* transport fails (axios sets err.message).
FailKinds == { "detail", "network" }

\* err?.response?.data?.detail, err?.message of a failed axios request.
ErrDetail(kind) == IF kind = "detail" THEN "detail du serveur" ELSE NoMessage
ErrMessage(kind) ==
  IF kind = "network" THEN "Network Error" ELSE "Request failed with status code 500"

\* a || b || c on strings.
Or3(a, b, c) == IF a # "" THEN a ELSE IF b # "" THEN b ELSE c

\* Variant: only the detail of the response is shown.
CycleErrorMessage_DetailOnly(kind) == ErrDetail(kind)

\* err?.response?.data?.detail || err?.message || "Erreur durant ..."
CycleErrorMessage(kind) == Or3(ErrDetail(kind), ErrMessage(kind), MsgOperation)

\* ------------------------------------------------------------------- state

VARIABLES
  localStorage,   \* the entries token, analysisMonth, analysisYear
  route,          \* the route the router shows: "/" or "/dashboard"
  dash,           \* Dashboard: mounted, period, which sections it rendered
  us,             \* UploadSection: its useState values
  cycles,         \* the performUploadAndAnalyze calls in flight, by slot
  listeners,      \* callbacks registered for "analysis-period-changed"
  anomalies,      \* AnomaliesPanel: useState values and its live request
  alerts,         \* AlertsPanel: useState values and its requests in flight
  summary,        \* AnalyticsSummary: useState values and requests in flight
  ev              \* what the last step did: requests sent, events delivered

vars ==
  << localStorage, route, dash, us, cycles, listeners,
     anomalies, alerts, summary, ev >>

Listeners == { "Dashboard", "AlertsPanel", "AnalyticsSummary" }

NoPeriod == [ mois |-> "", annee |-> 0 ]

NoSelection == [ typeFichier |-> "", mois |-> "", annee |-> 0, files |-> << >> ]

\* ev of a step that sends nothing and delivers nothing. (replaced: the
\* failure reason of a cycle on display that a step other than the submit
\* removed or changed; erased: the stored period that a step other than the
\* publish removed; stored: the token that a login attempt which does not
\* navigate wrote.)
Quiet(op) ==
  [ op |-> op, cyc |-> 0, orphan |-> FALSE, sent |-> << >>, thrown |-> NoMessage,
    replaced |-> NoMessage, erased |-> NoPeriod, stored |-> NoToken,
    input |-> NoSelection, reqs |-> << >>, published |-> 0, payload |-> NoPeriod,
    deliv |-> [ l \in Listeners |-> 0 ] ]

\* Authorization: token ? `Bearer ${token}` : ""
AuthHeader(token) == IF token # NoToken THEN "Bearer " \o token ELSE ""

\* A request as the backend sees it.
Request(op, auth, typeFichier, mois, annee, files) ==
  [ op |-> op, auth |-> auth, typeFichier |-> typeFichier,
    mois |-> mois, annee |-> annee, files |-> files ]

\* useState initial values of UploadSection (deleteOpen: Boolean(deleteAnchor)),
\* with the requests of its delete menu that are awaited: listPending GET
\* /excel-files, and deleting, the ids of the DELETE /delete-excel/{id}; and
\* failure: the error on display is the failure reason of a cycle.
UploadSectionInit ==
  [ mounted |-> FALSE, files |-> << >>, typeFichier |-> "", mois |-> "",
    annee |-> NowYear, successMessage |-> NoMessage, error |-> NoMessage,
    confirmOpen |-> FALSE, loading |-> FALSE,
    deleteOpen |-> FALSE, deleteList |-> << >>, listPending |-> 0,
    deleting |-> << >>, failure |-> FALSE ]

FreeCycle ==
  [ pc |-> "free", typeFichier |-> "", mois |-> "", annee |-> 0,
    token |-> NoToken, orphan |-> FALSE, reqs |-> << >> ]

\* The operations of a sequence of requests.
Ops(requests) == [ k \in DOMAIN requests |-> requests[k].op ]

Slots == 1..MaxCycles

\* ------------------------------------------------------------ localStorage

LocalStorageEmpty ==
  [ token |-> NoToken, user |-> "", analysisMonth |-> "", analysisYear |-> << >> ]

\* Variant: the panel starts on the current month and year whatever is stored.
readStoredPeriod_Now(ls) == [ mois |-> monthNameFR, annee |-> NowYear ]

\* AlertsPanel.readStoredPeriod
readStoredPeriod(ls) ==
  [ mois  |-> IF ls.analysisMonth # "" THEN ls.analysisMonth ELSE monthNameFR,
    annee |-> IF Len(ls.analysisYear) # 0 THEN Number(ls.analysisYear) ELSE NowYear ]

\* Dashboard: useState(() => ({ mois: ... || currentMonth,
\*                              annee: Number(...) || currentYear }))
DashboardInitialPeriod(ls) ==
  [ mois  |-> IF ls.analysisMonth # "" THEN ls.analysisMonth ELSE monthNameFR,
    annee |-> IF Number(ls.analysisYear) # 0 THEN Number(ls.analysisYear) ELSE NowYear ]

\* Variant: the panel starts on the current month and year whatever is stored.
SummaryInitialPeriod_Now(ls) == [ mois |-> MOIS[NowMonthIndex + 1], annee |-> NowYear ]

\* AnalyticsSummary: useState(localStorage.getItem("analysisMonth") || MOIS[now.getMonth()])
\*                   useState(Number(localStorage.getItem("analysisYear") || now.getFullYear()))
SummaryInitialPeriod(ls) ==
  [ mois  |-> IF ls.analysisMonth # "" THEN ls.analysisMonth ELSE MOIS[NowMonthIndex + 1],
    annee |-> Number(IF Len(ls.analysisYear) # 0 THEN ls.analysisYear ELSE String(NowYear)) ]

\* Variant: only the month entry is written.
StorePeriod_MonthOnly(ls, mois, annee) == [ ls EXCEPT !.analysisMonth = mois ]

\* localStorage.setItem("analysisMonth", mois); setItem("analysisYear", String(annee))
StorePeriod(ls, mois, annee) ==
  [ ls EXCEPT !.analysisMonth = mois, !.analysisYear = String(annee) ]

\* ------------------------------------------------------------------- roles

\* The role claim in the payload of a token (JSON.parse(atob(token.split(".")[1]))),
\* "" when the payload has none or the token is not a JWT.
PayloadRole(token) ==
  CASE token = "jwt.comptable" -> "comptable"
    [] token = "jwt.dg"        -> "dg"
    [] token = "jwt.Admin"     -> "Admin"
    [] token = "jwt.stagiaire" -> "stagiaire"
    [] OTHER                   -> ""

\* String(role).toLowerCase() on the spellings of a role that occur.
toLowerCaseRole(r) ==
  CASE r = "Comptable" -> "comptable"
    [] r = "DG"        -> "dg"
    [] r = "Admin"     -> "admin"
    [] OTHER           -> r

\* The role of the token's payload, as getRole returns it.
JwtRole(token) == toLowerCaseRole(PayloadRole(token))

\* Dashboard.getRole: the entries "role" and "userRole" are written nowhere, so
\* the role is the one of the token's payload.
getRole(ls) == IF ls.token # NoToken THEN JwtRole(ls.token) ELSE ""

\* Variant: every user with a role gets the upload section.
isComptable_AnyRole(role) == role # ""

isComptable(role) == role = "comptable"
canSeeAnalysis(role) ==
  role \in { "comptable", "dg", "membre", "utilisateur", "user", "admin" }

\* Variant: the route lets everyone in.
isAuthenticated_Always(ls) == TRUE

\* ProtectedRoute: !!localStorage.getItem("token")
isAuthenticated(ls) == ls.token # NoToken

\* ---------------------------------------------------------------- requests

NoHeader == "<no Authorization header>"

\* AlertsPanel: headers = token ? { Authorization: `Bearer ${token}` } : {}
AlertsHeader(token) == IF token # NoToken THEN "Bearer " \o token ELSE NoHeader

\* A period fetch of a panel.
Fetch(op, auth, p) == Request(op, auth, "", p.mois, p.annee, << >>)

\* Array.isArray(data) ? data : [] / setSummary(data): what a panel shows is
\* the response to the request for the period p.
DataFor(p) == [ mois |-> p.mois, annee |-> p.annee ]
NoData == NoPeriod

PanelErrorMessage(kind, fallback) == Or3(ErrDetail(kind), ErrMessage(kind), fallback)

\* ---------------------------------------------------------- initial values

DashboardUnmounted ==
  [ mounted |-> FALSE, period |-> NoPeriod,
    showUpload |-> FALSE, showAnalysis |-> FALSE ]

AnomaliesUnmounted ==
  [ loading |-> FALSE, items |-> NoData, error |-> NoMessage, inflight |-> << >> ]

AlertsUnmounted ==
  [ periode |-> NoPeriod, loading |-> FALSE, items |-> NoData,
    error |-> NoMessage, token |-> NoToken, inflight |-> << >> ]

SummaryUnmounted ==
  [ mois |-> "", annee |-> 0, loading |-> FALSE, error |-> NoMessage,
    summary |-> NoData, inflight |-> << >> ]

Init ==
  /\ localStorage = LocalStorageEmpty
  /\ route = "/"
  /\ dash = DashboardUnmounted
  /\ us = UploadSectionInit
  /\ cycles = [ i \in Slots |-> FreeCycle ]
  /\ listeners = << >>
  /\ anomalies = AnomaliesUnmounted
  /\ alerts = AlertsUnmounted
  /\ summary = SummaryUnmounted
  /\ ev = Quiet("init")

\* ----------------------------------------------------------- the event bus

Count(seq, x) == Cardinality({ k \in DOMAIN seq : seq[k] = x })

RemoveAt(seq, k) == SubSeq(seq, 1, k - 1) \o SubSeq(seq, k + 1, Len(seq))

\* window.addEventListener("analysis-period-changed", handler): each mount
\* registers the callback of its own effect.
addEventListener(reg, name) == Append(reg, name)

\* Variant: a cleanup that leaves the callback registered.
removeEventListener_Keeps(reg, name) == reg

\* window.removeEventListener("analysis-period-changed", handler): the
\* callback this mount registered is removed; a no-op when it is not there.
removeEventListener(reg, name) ==
  IF Count(reg, name) = 0 THEN reg
  ELSE RemoveAt(reg, CHOOSE k \in DOMAIN reg :
                       /\ reg[k] = name
                       /\ \A j \in DOMAIN reg : reg[j] = name => k <= j)

\* The effect cleanups that run when the analysis section unmounts.
CleanupPanels(reg) ==
  removeEventListener(removeEventListener(reg, "AnalyticsSummary"), "AlertsPanel")

\* The effects that run when the analysis section mounts (children in JSX order).
RegisterPanels(reg) ==
  addEventListener(addEventListener(reg, "AnalyticsSummary"), "AlertsPanel")

\* ------------------------------------------------------- mounting a panel

\* A panel sends one more request.
Send(inflight, r) ==
  IF Len(inflight) < MaxInFlight THEN Append(inflight, r)
  ELSE Append(Tail(inflight), r)

\* AnomaliesPanel: useState(true) and the fetch effect for the props (mois, annee).
AnomaliesMount(ls, period) ==
  [ loading |-> TRUE, items |-> NoData, error |-> NoMessage,
    inflight |-> << Fetch("anomalies", AuthHeader(ls.token), period) >> ]

\* AlertsPanel: useState(readStoredPeriod()), useState(true), and refresh().
AlertsMount(ls) ==
  [ periode |-> readStoredPeriod(ls), loading |-> TRUE, items |-> NoData,
    error |-> NoMessage, token |-> ls.token,
    inflight |-> << Fetch("alerts", AlertsHeader(ls.token), readStoredPeriod(ls)) >> ]

\* AnalyticsSummary: the initial period and fetchSummary(mois, annee).
SummaryMount(ls) ==
  [ mois |-> SummaryInitialPeriod(ls).mois, annee |-> SummaryInitialPeriod(ls).annee,
    loading |-> TRUE, error |-> NoMessage, summary |-> NoData,
    inflight |-> << Fetch("summary", AuthHeader(ls.token), SummaryInitialPeriod(ls)) >> ]

\* The requests the panels send when they mount.
MountRequests(ls, period) ==
  AnomaliesMount(ls, period).inflight \o SummaryMount(ls).inflight
    \o AlertsMount(ls).inflight

\* Every cycle in flight belongs to an UploadSection that is gone: its
\* setState calls no longer reach a component.
Orphaned(cs) ==
  [ i \in Slots |-> IF cs[i].pc = "free" THEN cs[i] ELSE [ cs[i] EXCEPT !.orphan = TRUE ] ]

\* The Dashboard mounts under ProtectedRoute, with the storage ls.
DashboardMounts(ls, op) ==
  LET role   == getRole(ls)
      period == DashboardInitialPeriod(ls)
      see    == canSeeAnalysis(role)
  IN  /\ route' = "/dashboard"
      /\ dash' = [ mounted |-> TRUE, period |-> period,
                   showUpload |-> isComptable(role), showAnalysis |-> see ]
      /\ us' = [ UploadSectionInit EXCEPT !.mounted = isComptable(role) ]
      /\ anomalies' = IF see THEN AnomaliesMount(ls, period) ELSE AnomaliesUnmounted
      /\ alerts' = IF see THEN AlertsMount(ls) ELSE AlertsUnmounted
      /\ summary' = IF see THEN SummaryMount(ls) ELSE SummaryUnmounted
      /\ listeners' =
           addEventListener(IF see THEN RegisterPanels(listeners) ELSE listeners,
                            "Dashboard")
      /\ ev' = [ Quiet(op) EXCEPT
                   !.sent = IF see THEN MountRequests(ls, period) ELSE << >> ]

\* ------------------------------------------------- login, logout, routing

\* authService.loginUser, on a 2xx response carrying access_token.
LoginStore(ls, token) == [ ls EXCEPT !.token = token, !.user = PayloadRole(token) ]

\* The same for a response { access_token, user: { role } } in general.
LoginStoreResponse(ls, resp) == [ ls EXCEPT !.token = resp.token, !.user = resp.role ]

\* authService.logout: removeItem of token, user and role.
LogoutStore(ls) == [ ls EXCEPT !.token = NoToken, !.user = "" ]

\* Dashboard.handleLogout: removeItem of token, role, userRole and email.
DashboardLogoutStore(ls) == [ ls EXCEPT !.token = NoToken ]

\* Login.handleLogin with a successful loginUser: navigate("/dashboard").
handleLogin(token) ==
  /\ route = "/"
  /\ localStorage' = LoginStore(localStorage, token)
  /\ DashboardMounts(LoginStore(localStorage, token), "handleLogin")
  /\ UNCHANGED cycles

\* The 2xx responses of POST /auth/login: the token and user.role ("" when the
\* response has no user role). The backend decides both; the token may be a
\* JWT with or without a role claim, or no JWT at all.
LoginResponses ==
  { [ token |-> "jwt.comptable", role |-> "Comptable" ],
    [ token |-> "jwt.dg",        role |-> "DG" ],
    [ token |-> "jwt.Admin",     role |-> "Admin" ],
    [ token |-> "jwt.stagiaire", role |-> "stagiaire" ],
    [ token |-> "jwt.norole",    role |-> "Comptable" ],
    [ token |-> "jwt.comptable", role |-> "" ] }

\* Login.handleLogin when loginUser answers resp: loginUser stores the token
\* and the user, then handleLogin returns without navigating when the user
\* has no role, and navigates to /dashboard otherwise.
LoginAttempt(resp) ==
  /\ route = "/"
  /\ localStorage' = LoginStoreResponse(localStorage, resp)
  /\ IF resp.role = ""
       THEN /\ ev' = [ Quiet("LoginNoRole") EXCEPT !.stored = resp.token ]
            /\ UNCHANGED << route, dash, us, listeners, anomalies, alerts, summary >>
       ELSE DashboardMounts(LoginStoreResponse(localStorage, resp), "handleLogin")
  /\ UNCHANGED cycles

\* Login.handleLogin when the backend rejects the credentials: loginUser
\* throws before it stores anything and handleLogin shows the message.
LoginRejected ==
  /\ route = "/"
  /\ ev' = Quiet("LoginRejected")
  /\ UNCHANGED << localStorage, route, dash, us, cycles, listeners,
                  anomalies, alerts, summary >>

\* The user opens /dashboard (address bar, history): ProtectedRoute lets the
\* Dashboard render when a token is stored and redirects to "/" otherwise.
OpenDashboard ==
  /\ route = "/"
  /\ IF isAuthenticated(localStorage)
       THEN DashboardMounts(localStorage, "OpenDashboard")
       ELSE /\ ev' = Quiet("Redirect")
            /\ UNCHANGED << route, dash, us, listeners, anomalies, alerts, summary >>
  /\ UNCHANGED << localStorage, cycles >>

\* The router leaves /dashboard without a page load (history navigation):
\* the Dashboard tree unmounts and every effect cleanup runs.
LeaveDashboard ==
  /\ route = "/dashboard"
  /\ route' = "/"
  /\ dash' = DashboardUnmounted
  /\ us' = UploadSectionInit
  /\ anomalies' = AnomaliesUnmounted
  /\ alerts' = AlertsUnmounted
  /\ summary' = SummaryUnmounted
  /\ listeners' =
       removeEventListener(
         IF dash.showAnalysis THEN CleanupPanels(listeners) ELSE listeners,
         "Dashboard")
  /\ cycles' = Orphaned(cycles)
  /\ ev' = Quiet("LeaveDashboard")
  /\ UNCHANGED localStorage

\* Dashboard.handleLogout: the token is removed and window.location.replace("/")
\* loads the page anew, which ends every script of the old page.
DashboardLogout ==
  /\ dash.mounted
  /\ localStorage' = DashboardLogoutStore(localStorage)
  /\ route' = "/"
  /\ dash' = DashboardUnmounted
  /\ us' = UploadSectionInit
  /\ anomalies' = AnomaliesUnmounted
  /\ alerts' = AlertsUnmounted
  /\ summary' = SummaryUnmounted
  /\ listeners' = << >>
  /\ cycles' = [ i \in Slots |-> FreeCycle ]
  /\ ev' = Quiet("DashboardLogout")

\* The period the two entries hold, NoPeriod when neither is there.
StoredPeriod(ls) ==
  [ mois |-> ls.analysisMonth, annee |-> Number(ls.analysisYear) ]

\* Navbar.handleLogout: localStorage.clear() and navigate("/"), which unmounts
\* the Dashboard when it is shown.
NavbarLogout ==
  /\ localStorage' = LocalStorageEmpty
  /\ route' = "/"
  /\ IF route = "/dashboard"
       THEN /\ dash' = DashboardUnmounted
            /\ us' = UploadSectionInit
            /\ anomalies' = AnomaliesUnmounted
            /\ alerts' = AlertsUnmounted
            /\ summary' = SummaryUnmounted
            /\ listeners' =
                 removeEventListener(
                   IF dash.showAnalysis THEN CleanupPanels(listeners) ELSE listeners,
                   "Dashboard")
            /\ cycles' = Orphaned(cycles)
       ELSE UNCHANGED << dash, us, anomalies, alerts, summary, listeners, cycles >>
  /\ ev' = [ Quiet("NavbarLogout") EXCEPT !.erased = StoredPeriod(localStorage) ]

\* authService.logout()
logout ==
  /\ localStorage.token # NoToken
  /\ localStorage' = LogoutStore(localStorage)
  /\ ev' = Quiet("logout")
  /\ UNCHANGED << route, dash, us, cycles, listeners, anomalies, alerts, summary >>

\* ----------------------------------------------------------- UploadSection

\* files.find((f) => !f.name.toLowerCase().endsWith(".xlsx")): the index of
\* the first such file, 0 when there is none.
FindInvalid(files) ==
  IF \E k \in DOMAIN files : ~endsWith(toLowerCase(files[k]), DotXlsx)
    THEN CHOOSE k \in DOMAIN files :
           /\ ~endsWith(toLowerCase(files[k]), DotXlsx)
           /\ \A j \in DOMAIN files :
                ~endsWith(toLowerCase(files[j]), DotXlsx) => k <= j
    ELSE 0

\* Variant: the extension of the files is not looked at.
ValidationMessage_NoExtension(typeFichier, mois, annee, files) ==
  IF typeFichier = "" \/ mois = "" \/ annee = 0 THEN MsgFields
  ELSE IF Len(files) = 0 THEN MsgNoFile
  ELSE NoMessage

\* The message handleUploadClick sets, NoMessage when the selection passes.
ValidationMessage(typeFichier, mois, annee, files) ==
  IF typeFichier = "" \/ mois = "" \/ annee = 0 THEN MsgFields
  ELSE IF Len(files) = 0 THEN MsgNoFile
  ELSE IF FindInvalid(files) # 0 THEN MsgExt
  ELSE NoMessage

\* disabled={files.length === 0 || !typeFichier || !mois || !annee || loading}
UploadButtonDisabled(u) ==
  Len(u.files) = 0 \/ u.typeFichier = "" \/ u.mois = "" \/ u.annee = 0 \/ u.loading

\* The failure reason of a cycle that the section u displays, if any.
Reason(u) == IF u.failure THEN u.error ELSE NoMessage

\* The form behind the confirmation dialog or the delete menu takes no input
\* while the (modal) dialog or menu is open.
FormUsable == us.mounted /\ ~us.confirmOpen /\ ~us.deleteOpen

UploadSectionStep(op) ==
  /\ ev' = Quiet(op)
  /\ UNCHANGED << localStorage, route, dash, cycles, listeners,
                  anomalies, alerts, summary >>

setTypeFichier(t) ==
  /\ FormUsable
  /\ us' = [ us EXCEPT !.typeFichier = t ]
  /\ UploadSectionStep("setTypeFichier")

setMois(m) ==
  /\ FormUsable
  /\ us' = [ us EXCEPT !.mois = m ]
  /\ UploadSectionStep("setMois")

setAnnee(y) ==
  /\ FormUsable
  /\ us' = [ us EXCEPT !.annee = y ]
  /\ UploadSectionStep("setAnnee")

\* onFileInputChange / onDrop
setFiles(fs) ==
  /\ FormUsable
  /\ us' = [ us EXCEPT !.files = fs ]
  /\ UploadSectionStep("setFiles")

handleUploadClick ==
  /\ FormUsable
  /\ ~UploadButtonDisabled(us)
  /\ LET msg == ValidationMessage(us.typeFichier, us.mois, us.annee, us.files)
     IN  us' = [ us EXCEPT !.successMessage = NoMessage,
                           !.error = msg, !.failure = FALSE,
                           !.confirmOpen = (msg = NoMessage) ]
  /\ UploadSectionStep("handleUploadClick")

\* Variant: the dialog closes while a cycle is running.
cancelConfirm_WhileLoading ==
  /\ us.mounted /\ us.confirmOpen
  /\ us' = [ us EXCEPT !.confirmOpen = FALSE ]
  /\ UploadSectionStep("cancelConfirm")

\* The Annuler button (disabled={loading}) and the dialog's onClose
\* (!loading && setConfirmOpen(false)).
cancelConfirm ==
  /\ us.mounted /\ us.confirmOpen /\ ~us.loading
  /\ us' = [ us EXCEPT !.confirmOpen = FALSE ]
  /\ UploadSectionStep("cancelConfirm")

\* ------------------------------------------- the delete menu of the section

MsgListFiles     == "Erreur de recuperation des fichiers."
MsgDeleted       == "Fichier supprime avec succes."
MsgDeleteRefused == "Suppression refusee ou erreur serveur."

\* The ids of the files the backend lists, and the lists it answers with.
FileIds == { 1, 2 }
ListedFiles == { << >>, << 1, 2 >> }

\* Longer answers, for the menu taken alone.
DeleteLists == ListedFiles \cup { << 3, 1, 2 >> }

ListRequest(u, ls) ==
  Request("list", AuthHeader(ls.token), u.typeFichier, u.mois, u.annee, << >>)

DeleteRequest(id, ls) ==
  [ id |-> id ] @@ Request("delete", AuthHeader(ls.token), "", "", 0, << >>)

MenuStep ==
  UNCHANGED << localStorage, route, dash, cycles, listeners,
               anomalies, alerts, summary >>

\* The button SUPPRIMER UN FICHIER (never disabled): the anchor is set, both
\* messages are cleared, and the list is requested.
openDeleteMenu ==
  /\ us.mounted /\ ~us.confirmOpen /\ ~us.deleteOpen
  /\ us' = [ us EXCEPT !.deleteOpen = TRUE, !.error = NoMessage, !.failure = FALSE,
                       !.successMessage = NoMessage,
                       !.listPending = IF @ < MaxInFlight THEN @ + 1 ELSE @ ]
  /\ ev' = [ Quiet("openDeleteMenu") EXCEPT
               !.sent = << ListRequest(us, localStorage) >>,
               !.replaced = Reason(us) ]
  /\ MenuStep

closeDeleteMenu ==
  /\ us.mounted /\ us.deleteOpen
  /\ us' = [ us EXCEPT !.deleteOpen = FALSE ]
  /\ ev' = Quiet("closeDeleteMenu")
  /\ MenuStep

\* GET /excel-files answers 2xx with a list.
DeleteListOk(listed) ==
  /\ us.mounted /\ us.listPending > 0
  /\ us' = [ us EXCEPT !.deleteList = listed, !.listPending = @ - 1 ]
  /\ ev' = Quiet("DeleteListOk")
  /\ MenuStep

DeleteListFail(kind) ==
  /\ us.mounted /\ us.listPending > 0
  /\ us' = [ us EXCEPT !.error = Or3(ErrDetail(kind), ErrMessage(kind), MsgListFiles),
                       !.failure = FALSE,
                       !.deleteList = << >>, !.listPending = @ - 1 ]
  /\ ev' = [ Quiet("DeleteListFail") EXCEPT !.replaced = Reason(us) ]
  /\ MenuStep

\* Variant: the entry at the head of the list is removed, whatever its id.
WithoutId_Head(list, id) == IF Len(list) = 0 THEN list ELSE Tail(list)

\* prev.filter((f) => f.id !== file.id)
WithoutId(list, id) == SelectSeq(list, LAMBDA f : f # id)

\* A click on the k-th entry of the menu; ok is the answer to window.confirm.
handleDelete(k, ok) ==
  /\ us.mounted /\ us.deleteOpen
  /\ k \in DOMAIN us.deleteList
  /\ IF ok
       THEN /\ us' = [ us EXCEPT !.deleting = Send(@, us.deleteList[k]) ]
            /\ ev' = [ Quiet("handleDelete") EXCEPT
                         !.sent = << DeleteRequest(us.deleteList[k], localStorage) >> ]
       ELSE /\ us' = us
            /\ ev' = Quiet("declineDelete")
  /\ MenuStep

\* DELETE /delete-excel/{id} answers 2xx.
DeleteOk(k) ==
  /\ us.mounted
  /\ k \in DOMAIN us.deleting
  /\ us' = [ us EXCEPT !.successMessage = MsgDeleted,
                       !.deleteList = WithoutId(@, us.deleting[k]),
                       !.deleting = RemoveAt(@, k) ]
  /\ ev' = Quiet("DeleteOk")
  /\ MenuStep

\* err?.response?.data?.detail || "Suppression refusee ou erreur serveur."
DeleteFail(k, kind) ==
  /\ us.mounted
  /\ k \in DOMAIN us.deleting
  /\ us' = [ us EXCEPT !.error = Or3(ErrDetail(kind), NoMessage, MsgDeleteRefused),
                       !.failure = FALSE,
                       !.deleting = RemoveAt(@, k) ]
  /\ ev' = [ Quiet("DeleteFail") EXCEPT !.replaced = Reason(us) ]
  /\ MenuStep

\* ------------------------------------------------- performUploadAndAnalyze

UploadRequest(c, files) ==
  Request("upload", AuthHeader(c.token), c.typeFichier, c.mois, String(c.annee), files)

EtlRequest(c) ==
  Request("etl", AuthHeader(c.token), c.typeFichier, c.mois, c.annee, << >>)

\* Variant: both posts leave without awaiting the first.
RequestsAtConfirm_Both(c, files) == << UploadRequest(c, files), EtlRequest(c) >>

\* What the call sends before it first suspends (await axios.post(upload)).
RequestsAtConfirm(c, files) == << UploadRequest(c, files) >>

\* What the call sends when the upload response is 2xx.
RequestsAfterUpload(c) == << EtlRequest(c) >>

\* The "Oui, lancer" button (disabled={loading}): the call runs up to its
\* first await.
performUploadAndAnalyze(i) ==
  /\ us.mounted /\ us.confirmOpen /\ ~us.loading
  /\ cycles[i].pc = "free"
  /\ \A j \in Slots : j < i => cycles[j].pc # "free"
  /\ LET c == [ pc |-> "awaitUpload", typeFichier |-> us.typeFichier,
                mois |-> us.mois, annee |-> us.annee,
                token |-> localStorage.token, orphan |-> FALSE, reqs |-> << >> ]
     IN  /\ cycles' = [ cycles EXCEPT
                          ![i] = [ c EXCEPT !.reqs = RequestsAtConfirm(c, us.files) ] ]
         /\ ev' = [ Quiet("performUploadAndAnalyze") EXCEPT
                      !.cyc = i, !.sent = RequestsAtConfirm(c, us.files) ]
  /\ us' = [ us EXCEPT !.loading = TRUE ]
  /\ UNCHANGED << localStorage, route, dash, listeners, anomalies, alerts, summary >>

\* The upload answers 2xx: the call resumes and posts /etl/load-month.
UploadOk(i) ==
  /\ cycles[i].pc = "awaitUpload"
  /\ cycles' = [ cycles EXCEPT
                   ![i].pc = "awaitEtl",
                   ![i].reqs = @ \o RequestsAfterUpload(cycles[i]) ]
  /\ ev' = [ Quiet("UploadOk") EXCEPT
               !.cyc = i, !.sent = RequestsAfterUpload(cycles[i]) ]
  /\ UNCHANGED << localStorage, route, dash, us, listeners, anomalies, alerts, summary >>

\* catch { setError(String(msg)) } finally { setLoading(false); setConfirmOpen(false) }
Failed(u, c, kind) ==
  IF c.orphan THEN u
  ELSE [ u EXCEPT !.error = CycleErrorMessage(kind), !.failure = TRUE,
                  !.loading = FALSE, !.confirmOpen = FALSE ]

\* Variant: the failure of the upload is swallowed and the analysis is posted.
UploadFail_Continues(i, kind) ==
  /\ cycles[i].pc = "awaitUpload"
  /\ cycles' = [ cycles EXCEPT
                   ![i].pc = "awaitEtl",
                   ![i].reqs = @ \o RequestsAfterUpload(cycles[i]) ]
  /\ ev' = [ Quiet("UploadFail") EXCEPT
               !.cyc = i, !.reqs = cycles[i].reqs \o RequestsAfterUpload(cycles[i]),
               !.sent = RequestsAfterUpload(cycles[i]) ]
  /\ UNCHANGED << localStorage, route, dash, us, listeners, anomalies, alerts, summary >>

\* Variant: the failed upload is posted again and the call keeps waiting.
UploadFail_Retries(i, kind) ==
  /\ cycles[i].pc = "awaitUpload"
  /\ cycles' = [ cycles EXCEPT ![i].reqs = @ \o << cycles[i].reqs[1] >> ]
  /\ ev' = [ Quiet("UploadFail") EXCEPT
               !.cyc = i, !.reqs = cycles[i].reqs, !.orphan = cycles[i].orphan,
               !.sent = << cycles[i].reqs[1] >> ]
  /\ UNCHANGED << localStorage, route, dash, us, listeners, anomalies, alerts, summary >>

\* The upload fails: catch and finally run.
UploadFail(i, kind) ==
  /\ cycles[i].pc = "awaitUpload"
  /\ us' = Failed(us, cycles[i], kind)
  /\ cycles' = [ cycles EXCEPT ![i] = FreeCycle ]
  /\ ev' = [ Quiet("UploadFail") EXCEPT !.cyc = i, !.reqs = cycles[i].reqs,
               !.orphan = cycles[i].orphan,
               !.replaced = IF cycles[i].orphan THEN NoMessage ELSE Reason(us) ]
  /\ UNCHANGED << localStorage, route, dash, listeners, anomalies, alerts, summary >>

\* Variant: the period is stored and published although the analysis failed.
EtlFail_Publishes(i, kind) ==
  /\ cycles[i].pc = "awaitEtl"
  /\ us' = Failed(us, cycles[i], kind)
  /\ cycles' = [ cycles EXCEPT ![i] = FreeCycle ]
  /\ localStorage' = StorePeriod(localStorage, cycles[i].mois, cycles[i].annee)
  /\ ev' = [ Quiet("EtlFail") EXCEPT
               !.cyc = i, !.reqs = cycles[i].reqs, !.published = 1,
               !.payload = [ mois |-> cycles[i].mois, annee |-> cycles[i].annee ],
               !.deliv = [ l \in Listeners |-> Count(listeners, l) ] ]
  /\ UNCHANGED << route, dash, listeners, anomalies, alerts, summary >>

\* The analysis fails after the upload succeeded: catch and finally run.
EtlFail(i, kind) ==
  /\ cycles[i].pc = "awaitEtl"
  /\ us' = Failed(us, cycles[i], kind)
  /\ cycles' = [ cycles EXCEPT ![i] = FreeCycle ]
  /\ ev' = [ Quiet("EtlFail") EXCEPT !.cyc = i, !.reqs = cycles[i].reqs,
               !.orphan = cycles[i].orphan,
               !.replaced = IF cycles[i].orphan THEN NoMessage ELSE Reason(us) ]
  /\ UNCHANGED << localStorage, route, dash, listeners, anomalies, alerts, summary >>

\* ------------------------------------------------------- the publish step

\* AlertsPanel renders again: the token is read anew, and when the period or
\* the headers differ from those of the last render, refresh is a new
\* callback and the effect [refresh] calls it. The requests this sends:
AlertsRequests(a, old, ls) ==
  IF a.periode # old.periode \/ ls.token # old.token
    THEN << Fetch("alerts", AlertsHeader(ls.token), a.periode) >>
    ELSE << >>

AlertsRender(a, old, ls) ==
  IF Len(AlertsRequests(a, old, ls)) > 0
    THEN [ a EXCEPT !.token = ls.token, !.loading = TRUE, !.error = NoMessage,
                    !.inflight = Send(@, AlertsRequests(a, old, ls)[1]) ]
    ELSE a

\* AnomaliesPanel renders again with the props of the Dashboard: when mois or
\* annee differ from those of the last render, the cleanup of the effect
\* clears `alive` of the request in flight and the effect fetches anew.
AnomaliesRequests(oldPeriod, period, ls) ==
  IF period # oldPeriod
    THEN << Fetch("anomalies", AuthHeader(ls.token), period) >>
    ELSE << >>

AnomaliesRender(an, oldPeriod, period, ls) ==
  IF Len(AnomaliesRequests(oldPeriod, period, ls)) > 0
    THEN [ an EXCEPT !.loading = TRUE, !.error = NoMessage,
                     !.inflight = AnomaliesRequests(oldPeriod, period, ls) ]
    ELSE an

\* AnalyticsSummary.fetchSummary(m, y) up to its await.
fetchSummary(su, ls, p) ==
  [ su EXCEPT !.loading = TRUE, !.error = NoMessage,
              !.inflight = Send(@, Fetch("summary", AuthHeader(ls.token), p)) ]

\* AnalyticsSummary.onChange, and the requests it sends.
SummaryRequests(ls, detail) ==
  IF detail.mois # "" /\ detail.annee # 0
    THEN << Fetch("summary", AuthHeader(ls.token), detail) >>
    ELSE << >>

SummaryOnChange(su, ls, detail) ==
  IF detail.mois # "" /\ detail.annee # 0
    THEN fetchSummary([ su EXCEPT !.mois = detail.mois, !.annee = detail.annee ], ls, detail)
    ELSE su

\* Variant: the handler takes the detail as it comes.
OnPeriod_Unchecked(period, detail) ==
  [ mois |-> detail.mois, annee |-> detail.annee ]

\* Dashboard.onPeriod / AlertsPanel.handler: the period after the event.
OnPeriod(period, detail) ==
  IF detail.mois # "" /\ detail.annee # 0
    THEN [ mois |-> detail.mois, annee |-> detail.annee ]
    ELSE period

\* new CustomEvent("analysis-period-changed", { detail: { mois, annee } })
EventDetail(c) == [ mois |-> c.mois, annee |-> c.annee ]

\* How many "analysis-period-changed" events a successful cycle dispatches.
Dispatches(c) == 1

\* The analysis answers 2xx: the success message, the two storage entries, the
\* event (its handlers run inside dispatchEvent), setFiles([]), finally, and
\* then React renders the components whose state was set.
EtlOk(i) ==
  /\ cycles[i].pc = "awaitEtl"
  /\ LET c       == cycles[i]
         ls1     == StorePeriod(localStorage, c.mois, c.annee)
         n       == Dispatches(c)
         detail  == EventDetail(c)
         heard(l) == n * Count(listeners, l)
         \* the handlers
         dashHeard    == heard("Dashboard") > 0 /\ dash.mounted
         alertsHeard  == heard("AlertsPanel") > 0 /\ dash.showAnalysis
         summaryHeard == heard("AnalyticsSummary") > 0 /\ dash.showAnalysis
         period1  == IF dashHeard THEN OnPeriod(dash.period, detail) ELSE dash.period
         alerts1  == IF alertsHeard
                       THEN [ alerts EXCEPT !.periode = OnPeriod(@, detail) ]
                       ELSE alerts
         summary1 == IF summaryHeard THEN SummaryOnChange(summary, ls1, detail)
                     ELSE summary
         \* the orchestrator's own state
         us1 == IF c.orphan THEN us
                ELSE [ us EXCEPT !.successMessage = MsgSuccess, !.files = << >>,
                                 !.loading = FALSE, !.confirmOpen = FALSE ]
         \* setPeriod renders the Dashboard again, with the role of this render
         role == getRole(ls1)
         showUpload1   == IF dashHeard THEN isComptable(role) ELSE dash.showUpload
         showAnalysis1 == IF dashHeard THEN canSeeAnalysis(role) ELSE dash.showAnalysis
         stay    == dash.showAnalysis /\ showAnalysis1
         appear  == ~dash.showAnalysis /\ showAnalysis1
         vanish  == dash.showAnalysis /\ ~showAnalysis1
         anomalies2 ==
           IF stay THEN AnomaliesRender(anomalies, dash.period, period1, ls1)
           ELSE IF appear THEN AnomaliesMount(ls1, period1)
           ELSE IF vanish THEN AnomaliesUnmounted
           ELSE anomalies
         alerts2 ==
           IF stay THEN AlertsRender(alerts1, alerts, ls1)
           ELSE IF appear THEN AlertsMount(ls1)
           ELSE IF vanish THEN AlertsUnmounted
           ELSE alerts
         summary2 ==
           IF stay THEN summary1
           ELSE IF appear THEN SummaryMount(ls1)
           ELSE IF vanish THEN SummaryUnmounted
           ELSE summary
         us2 ==
           IF dash.showUpload /\ ~showUpload1 THEN UploadSectionInit
           ELSE IF ~dash.showUpload /\ showUpload1
             THEN [ UploadSectionInit EXCEPT !.mounted = TRUE ]
           ELSE us1
         cycles1 == [ cycles EXCEPT ![i] = FreeCycle ]
     IN  /\ localStorage' = ls1
         /\ dash' = [ dash EXCEPT !.period = period1, !.showUpload = showUpload1,
                                  !.showAnalysis = showAnalysis1 ]
         /\ us' = us2
         /\ anomalies' = anomalies2
         /\ alerts' = alerts2
         /\ summary' = summary2
         /\ listeners' =
              IF vanish THEN CleanupPanels(listeners)
              ELSE IF appear THEN RegisterPanels(listeners)
              ELSE listeners
         /\ cycles' = IF dash.showUpload /\ ~showUpload1 THEN Orphaned(cycles1)
                      ELSE cycles1
         /\ ev' = [ Quiet("EtlOk") EXCEPT
                      !.cyc = i, !.reqs = c.reqs, !.orphan = c.orphan,
                      !.published = n, !.payload = detail,
                      !.deliv = [ l \in Listeners |-> heard(l) ],
                      !.sent =
                        (IF summaryHeard THEN SummaryRequests(ls1, detail) ELSE << >>)
                          \o (IF appear THEN MountRequests(ls1, period1)
                              ELSE IF stay
                                THEN AnomaliesRequests(dash.period, period1, ls1)
                                       \o AlertsRequests(alerts1, alerts, ls1)
                              ELSE << >>) ]
  /\ UNCHANGED route

\* ------------------------------------------------- responses to the panels

MsgAnomalies == "Erreur chargement anomalies."
MsgAlerts    == "Erreur chargement alertes."
MsgSummary   == "Erreur lors du chargement du resume."

\* Variant: the failure of a panel also lands in the error of the upload section.
PanelStep_PageError(op) ==
  /\ ev' = Quiet(op)
  /\ us' = [ us EXCEPT !.error = MsgOperation ]
  /\ UNCHANGED << localStorage, route, dash, cycles, listeners >>

PanelStep(op) ==
  /\ ev' = Quiet(op)
  /\ UNCHANGED << localStorage, route, dash, us, cycles, listeners >>

\* AnomaliesPanel: the request whose `alive` is still true answers 2xx.
AnomaliesOk ==
  /\ Len(anomalies.inflight) > 0
  /\ anomalies' = [ anomalies EXCEPT !.items = DataFor(anomalies.inflight[1]),
                                     !.loading = FALSE, !.inflight = << >> ]
  /\ PanelStep("AnomaliesOk")
  /\ UNCHANGED << alerts, summary >>

AnomaliesFail(kind) ==
  /\ Len(anomalies.inflight) > 0
  /\ anomalies' = [ anomalies EXCEPT !.error = PanelErrorMessage(kind, MsgAnomalies),
                                     !.loading = FALSE, !.inflight = << >> ]
  /\ PanelStep("AnomaliesFail")
  /\ UNCHANGED << alerts, summary >>

\* AlertsPanel.refresh resumes with the 2xx response to its k-th request.
AlertsOk(k) ==
  /\ k \in DOMAIN alerts.inflight
  /\ LET a1 == [ alerts EXCEPT !.items = DataFor(alerts.inflight[k]),
                               !.loading = FALSE,
                               !.inflight = RemoveAt(@, k) ]
         a2 == AlertsRender(a1, alerts, localStorage)
     IN  /\ alerts' = a2
         /\ ev' = [ Quiet("AlertsOk") EXCEPT
                      !.sent = AlertsRequests(a1, alerts, localStorage) ]
  /\ UNCHANGED << localStorage, route, dash, us, cycles, listeners,
                  anomalies, summary >>

AlertsFail(k, kind) ==
  /\ k \in DOMAIN alerts.inflight
  /\ LET a1 == [ alerts EXCEPT !.error = PanelErrorMessage(kind, MsgAlerts),
                               !.loading = FALSE,
                               !.inflight = RemoveAt(@, k) ]
         a2 == AlertsRender(a1, alerts, localStorage)
     IN  /\ alerts' = a2
         /\ ev' = [ Quiet("AlertsFail") EXCEPT
                      !.sent = AlertsRequests(a1, alerts, localStorage) ]
  /\ UNCHANGED << localStorage, route, dash, us, cycles, listeners,
                  anomalies, summary >>

\* AnalyticsSummary.fetchSummary resumes with the response to its k-th request.
SummaryOk(k) ==
  /\ k \in DOMAIN summary.inflight
  /\ summary' = [ summary EXCEPT !.summary = DataFor(summary.inflight[k]),
                                 !.loading = FALSE,
                                 !.inflight = RemoveAt(@, k) ]
  /\ PanelStep("SummaryOk")
  /\ UNCHANGED << anomalies, alerts >>

SummaryFail(k, kind) ==
  /\ k \in DOMAIN summary.inflight
  /\ summary' = [ summary EXCEPT !.error = PanelErrorMessage(kind, MsgSummary),
                                 !.summary = NoData,
                                 !.loading = FALSE,
                                 !.inflight = RemoveAt(@, k) ]
  /\ PanelStep("SummaryFail")
  /\ UNCHANGED << anomalies, alerts >>

\* AnalyticsSummary's own filters. The panel renders them only while it is not
\* loading (it returns the spinner otherwise).
yearsAround == { NowYear - 1, NowYear, NowYear + 1 }
FilterMonths == { MOIS[1], monthNameFR }

\* The filter "Mois": onChange={(e) => setMois(e.target.value)}
SummarySetMois(m) ==
  /\ dash.showAnalysis /\ ~summary.loading
  /\ summary' = [ summary EXCEPT !.mois = m ]
  /\ PanelStep("SummarySetMois")
  /\ UNCHANGED << anomalies, alerts >>

\* The filter "Annee": onChange={(e) => setAnnee(Number(e.target.value))}
SummarySetAnnee(y) ==
  /\ dash.showAnalysis /\ ~summary.loading
  /\ summary' = [ summary EXCEPT !.annee = y ]
  /\ PanelStep("SummarySetAnnee")
  /\ UNCHANGED << anomalies, alerts >>

\* The button "Actualiser": onClick={() => fetchSummary(mois, annee)}
Actualiser ==
  /\ dash.showAnalysis /\ ~summary.loading
  /\ LET p == [ mois |-> summary.mois, annee |-> summary.annee ]
     IN  /\ summary' = fetchSummary(summary, localStorage, p)
         /\ ev' = [ Quiet("Actualiser") EXCEPT
                      !.sent = << Fetch("summary", AuthHeader(localStorage.token), p) >> ]
  /\ UNCHANGED << localStorage, route, dash, us, cycles, listeners, anomalies, alerts >>

\* --------------------------------------------------------- service clients

MsgRequired == "Type, mois et annee sont obligatoires."
MsgToken    == "Token invalide ou expire"

\* `Bearer ${token}` with the value localStorage.getItem returns: null reads "null".
BearerTemplate(token) == "Bearer " \o (IF token = NoToken THEN "null" ELSE token)

\* uploadService.uploadExcels: the Error it throws before any request, NoMessage
\* when it throws none.
uploadExcelsThrows(sel, ls) ==
  IF sel.typeFichier = "" \/ sel.mois = "" \/ sel.annee = 0 THEN MsgRequired
  ELSE IF Len(sel.files) = 0 THEN MsgNoFile
  ELSE IF ls.token = NoToken THEN MsgToken
  ELSE NoMessage

\* uploadService.uploadExcels: the request it posts.
uploadExcelsRequests(sel, ls) ==
  IF uploadExcelsThrows(sel, ls) # NoMessage THEN << >>
  ELSE << Request("upload", "Bearer " \o ls.token, sel.typeFichier, sel.mois,
                  String(sel.annee), sel.files) >>

ServiceStep ==
  UNCHANGED << localStorage, route, dash, us, cycles, listeners,
               anomalies, alerts, summary >>

uploadExcels(sel) ==
  /\ ev' = [ Quiet("uploadExcels") EXCEPT
               !.input = sel,
               !.thrown = uploadExcelsThrows(sel, localStorage),
               !.sent = uploadExcelsRequests(sel, localStorage) ]
  /\ ServiceStep

\* filesService.listFiles
listFiles ==
  /\ ev' = [ Quiet("listFiles") EXCEPT
               !.sent = << Request("list", BearerTemplate(localStorage.token),
                                   "", "", 0, << >>) >> ]
  /\ ServiceStep

\* filesService.deleteFile
deleteFile ==
  /\ ev' = [ Quiet("deleteFile") EXCEPT
               !.sent = << Request("delete", BearerTemplate(localStorage.token),
                                   "", "", 0, << >>) >> ]
  /\ ServiceStep

\* authService.loginUser, answered 2xx with the token
loginUser(token) ==
  /\ localStorage' = LoginStore(localStorage, token)
  /\ ev' = Quiet("loginUser")
  /\ UNCHANGED << route, dash, us, cycles, listeners, anomalies, alerts, summary >>

\* The selections a caller passes to uploadExcels.
Selections ==
  [ typeFichier : TYPES \cup { "" }, mois : Months \cup { "" },
    annee : Years \cup { 0 }, files : FileLists ]

\* ------------------------------------------------------- the whole system

Next ==
  \/ \E t \in Tokens : handleLogin(t)
  \/ OpenDashboard
  \/ LeaveDashboard
  \/ DashboardLogout
  \/ logout
  \/ \E t \in TYPES : setTypeFichier(t)
  \/ \E m \in Months : setMois(m)
  \/ \E y \in Years : setAnnee(y)
  \/ \E fs \in FileLists : setFiles(fs)
  \/ handleUploadClick
  \/ cancelConfirm
  \/ \E i \in Slots : performUploadAndAnalyze(i)
  \/ \E i \in Slots : UploadOk(i)
  \/ \E i \in Slots, kind \in FailKinds : UploadFail(i, kind)
  \/ \E i \in Slots : EtlOk(i)
  \/ \E i \in Slots, kind \in FailKinds : EtlFail(i, kind)

\* The orchestrator, the bus, the store and the routes, while the fetches of
\* the panels are pending. (The responses to the panels change nothing but
\* the panels' own state.)
Spec == Init /\ [][Next]_vars

\* The responses to the fetches of the panels.
PanelResponses ==
  \/ AnomaliesOk
  \/ \E kind \in FailKinds : AnomaliesFail(kind)
  \/ \E k \in 1..MaxInFlight : AlertsOk(k)
  \/ \E k \in 1..MaxInFlight, kind \in FailKinds : AlertsFail(k, kind)
  \/ \E k \in 1..MaxInFlight : SummaryOk(k)
  \/ \E k \in 1..MaxInFlight, kind \in FailKinds : SummaryFail(k, kind)

\* The application with the Navbar on its pages.
NextNavbar ==
  \/ Next
  \/ NavbarLogout

SpecNavbar == Init /\ [][NextNavbar]_vars

\* The login page with every response of the backend, the routes, and the
\* cycle of the section when it is shown.
NextLogin ==
  \/ \E resp \in LoginResponses : LoginAttempt(resp)
  \/ LoginRejected
  \/ OpenDashboard
  \/ LeaveDashboard
  \/ DashboardLogout
  \/ logout
  \/ \E t \in TYPES : setTypeFichier(t)
  \/ \E m \in Months : setMois(m)
  \/ setAnnee(NowYear - 1)
  \/ setFiles(<< NameLower, NameUpper >>)
  \/ handleUploadClick
  \/ \E i \in Slots : performUploadAndAnalyze(i)
  \/ \E i \in Slots : UploadOk(i)
  \/ \E i \in Slots : EtlOk(i)

SpecLogin == Init /\ [][NextLogin]_vars

\* The delete menu of the section taken alone.
NextDelete ==
  \/ \E t \in Tokens : handleLogin(t)
  \/ openDeleteMenu
  \/ closeDeleteMenu
  \/ \E listed \in DeleteLists : DeleteListOk(listed)
  \/ \E kind \in FailKinds : DeleteListFail(kind)
  \/ \E k \in 1..3, ok \in BOOLEAN : handleDelete(k, ok)
  \/ \E k \in 1..MaxInFlight : DeleteOk(k)
  \/ \E k \in 1..MaxInFlight, kind \in FailKinds : DeleteFail(k, kind)

SpecDelete == Init /\ [][NextDelete]_vars

\* The Dashboard of one session with the filters of AnalyticsSummary in use.
NextFilters ==
  \/ \E t \in Tokens : handleLogin(t)
  \/ \E t \in TYPES : setTypeFichier(t)
  \/ \E m \in Months : setMois(m)
  \/ setAnnee(NowYear - 1)
  \/ setFiles(<< NameLower, NameUpper >>)
  \/ handleUploadClick
  \/ \E i \in Slots : performUploadAndAnalyze(i)
  \/ \E i \in Slots : UploadOk(i)
  \/ \E i \in Slots : EtlOk(i)
  \/ \E k \in 1..MaxInFlight : SummaryOk(k)
  \/ \E k \in 1..MaxInFlight, kind \in FailKinds : SummaryFail(k, kind)
  \/ \E m \in FilterMonths : SummarySetMois(m)
  \/ \E y \in yearsAround : SummarySetAnnee(y)
  \/ Actualiser

SpecFilters == Init /\ [][NextFilters]_vars

\* The Dashboard of one session with its panels answered: a comptable or a dg
\* logs in, the comptable runs cycles that succeed (for the current year, the
\* initial value of the selector, and then for the year before), and every
\* fetch of a panel answers or fails.
NextPanels ==
  \/ \E t \in Tokens : handleLogin(t)
  \/ \E t \in TYPES : setTypeFichier(t)
  \/ \E m \in Months : setMois(m)
  \/ setAnnee(NowYear - 1)
  \/ setFiles(<< NameLower, NameUpper >>)
  \/ handleUploadClick
  \/ \E i \in Slots : performUploadAndAnalyze(i)
  \/ \E i \in Slots : UploadOk(i)
  \/ \E i \in Slots : EtlOk(i)
  \/ PanelResponses

SpecPanels == Init /\ [][NextPanels]_vars

\* The upload section of one session with its delete menu: a comptable or a
\* dg logs in, the comptable fills the form, submits, cancels or confirms,
\* the two posts answer or fail, and the delete menu is opened, used and
\* closed.
NextMenu ==
  \/ \E t \in Tokens : handleLogin(t)
  \/ \E t \in TYPES : setTypeFichier(t)
  \/ \E m \in Months : setMois(m)
  \/ setAnnee(NowYear - 1)
  \/ setFiles(<< NameLower, NameUpper >>)
  \/ handleUploadClick
  \/ cancelConfirm
  \/ \E i \in Slots : performUploadAndAnalyze(i)
  \/ \E i \in Slots : UploadOk(i)
  \/ \E i \in Slots, kind \in FailKinds : UploadFail(i, kind)
  \/ \E i \in Slots, kind \in FailKinds : EtlFail(i, kind)
  \/ \E i \in Slots : EtlOk(i)
  \/ openDeleteMenu
  \/ closeDeleteMenu
  \/ \E listed \in ListedFiles : DeleteListOk(listed)
  \/ \E kind \in FailKinds : DeleteListFail(kind)
  \/ \E k \in 1..Cardinality(FileIds), ok \in BOOLEAN : handleDelete(k, ok)
  \/ \E k \in 1..MaxInFlight : DeleteOk(k)
  \/ \E k \in 1..MaxInFlight, kind \in FailKinds : DeleteFail(k, kind)

SpecMenu == Init /\ [][NextMenu]_vars

\* The service clients, called on their own.
NextServices ==
  \/ \E t \in Tokens : loginUser(t)
  \/ logout
  \/ \E sel \in Selections : uploadExcels(sel)
  \/ listFiles
  \/ deleteFile

SpecServices == Init /\ [][NextServices]_vars

\* ------------------------------------------------------------- properties

\* An UploadSelection is valid: type, month and year are set, there is at
\* least one file, and every file name ends in ".xlsx" in any letter case.
IsXlsxName(name) ==
  /\ Len(name) >= 5
  /\ name[Len(name) - 4] = "."
  /\ name[Len(name) - 3] \in { "x", "X" }
  /\ name[Len(name) - 2] \in { "l", "L" }
  /\ name[Len(name) - 1] \in { "s", "S" }
  /\ name[Len(name)] \in { "x", "X" }

ValidSelection(typeFichier, mois, annee, files) ==
  /\ typeFichier # "" /\ mois # "" /\ annee # 0
  /\ Len(files) >= 1
  /\ \A k \in DOMAIN files : IsXlsxName(files[k])

CycleEnds == { "UploadFail", "EtlFail", "EtlOk" }

HasOp(requests, op) == \E k \in DOMAIN requests : requests[k].op = op

\* C1 (as stated): every confirmed cycle issues exactly one POST /upload-excel
\* and then exactly one POST /etl/load-month.
C1_EveryCycleUploadsAndAnalyses ==
  ev.op \in CycleEnds => Ops(ev.reqs) = << "upload", "etl" >>

\* C1 (amended): confirming a valid selection issues exactly one POST
\* /upload-excel carrying that selection; the POST /etl/load-month is issued
\* exactly once, in the step in which the 2xx upload response arrives and
\* never before; a cycle whose upload fails issues no analysis request.
C1_UploadThenAnalysis ==
  /\ ev.op = "performUploadAndAnalyze" =>
       /\ Ops(ev.sent) = << "upload" >>
       /\ ValidSelection(us.typeFichier, us.mois, us.annee, us.files)
       /\ ev.sent[1].typeFichier = us.typeFichier
       /\ ev.sent[1].mois = us.mois
       /\ Number(ev.sent[1].annee) = us.annee
       /\ ev.sent[1].files = us.files
  /\ HasOp(ev.sent, "etl") => ev.op = "UploadOk" /\ Ops(ev.sent) = << "etl" >>
  /\ HasOp(ev.sent, "upload") => ev.op = "performUploadAndAnalyze"
  /\ \A i \in Slots :
       /\ cycles[i].pc = "awaitUpload" => Ops(cycles[i].reqs) = << "upload" >>
       /\ cycles[i].pc = "awaitEtl" => Ops(cycles[i].reqs) = << "upload", "etl" >>
  /\ ev.op = "UploadFail" => Ops(ev.reqs) = << "upload" >>
  /\ ev.op \in { "EtlOk", "EtlFail" } => Ops(ev.reqs) = << "upload", "etl" >>

C1_Witness ==
  /\ ev.op = "EtlOk"
  /\ Ops(ev.reqs) = << "upload", "etl" >>
  /\ Len(ev.reqs[1].files) = 2

\* C2: the step in which the upload of a cycle fails sends no request (the
\* cycle is over without an analysis request), leaves the entries
\* analysisMonth and analysisYear as they were, and dispatches no event.
C2_UploadFailure ==
  [][ ev'.op = "UploadFail" =>
        /\ ~HasOp(ev'.reqs, "etl")
        /\ ev'.sent = << >>
        /\ cycles'[ev'.cyc].pc = "free"
        /\ localStorage'.analysisMonth = localStorage.analysisMonth
        /\ localStorage'.analysisYear = localStorage.analysisYear
        /\ ev'.published = 0
        /\ \A l \in Listeners : ev'.deliv[l] = 0 ]_vars

C2_Witness ==
  /\ ev.op = "UploadFail"
  /\ localStorage.analysisMonth # ""
  /\ Len(localStorage.analysisYear) # 0

\* C3: the step in which the analysis of a cycle fails after its upload
\* succeeded leaves the entries analysisMonth and analysisYear as they were,
\* dispatches no event, and leaves the period of every panel as it was.
C3_AnalysisFailure ==
  [][ ev'.op = "EtlFail" =>
        /\ Ops(ev'.reqs) = << "upload", "etl" >>
        /\ localStorage'.analysisMonth = localStorage.analysisMonth
        /\ localStorage'.analysisYear = localStorage.analysisYear
        /\ ev'.published = 0
        /\ \A l \in Listeners : ev'.deliv[l] = 0
        /\ ev'.sent = << >>
        /\ dash'.period = dash.period
        /\ alerts'.periode = alerts.periode
        /\ summary'.mois = summary.mois /\ summary'.annee = summary.annee ]_vars

C3_Witness ==
  /\ ev.op = "EtlFail"
  /\ dash.showAnalysis
  /\ localStorage.analysisMonth # ""
  /\ ev.reqs[2].annee # Number(localStorage.analysisYear)

\* C4: a cycle that succeeds dispatches exactly one event; its payload is the
\* (month, year) its upload and its analysis request carried; and reading the
\* store afterwards (the month entry, Number of the year entry) gives that
\* period.
C4_SuccessPublishes ==
  ev.op = "EtlOk" =>
    /\ ev.published = 1
    /\ Ops(ev.reqs) = << "upload", "etl" >>
    /\ ev.payload.mois = ev.reqs[1].mois
    /\ ev.payload.annee = Number(ev.reqs[1].annee)
    /\ ev.payload.mois = ev.reqs[2].mois
    /\ ev.payload.annee = ev.reqs[2].annee
    /\ localStorage.analysisMonth = ev.payload.mois
    /\ Number(localStorage.analysisYear) = ev.payload.annee
    /\ readStoredPeriod(localStorage) = ev.payload

C4_Witness ==
  /\ ev.op = "EtlOk"
  /\ ev.published = 1
  /\ ev.payload.annee # NowYear
  /\ readStoredPeriod(localStorage) = ev.payload

\* C5: cancelling at the confirmation dialog sends no request, leaves the
\* store, the cycles and the listeners as they were, dispatches nothing, and
\* ends with confirmOpen = false and loading = false; and a cycle starts
\* uploading only in a step that confirms an open dialog.
C5_Cancel ==
  [][ /\ ev'.op = "cancelConfirm" =>
           /\ us.confirmOpen
           /\ ev'.sent = << >>
           /\ localStorage' = localStorage
           /\ cycles' = cycles
           /\ listeners' = listeners
           /\ ev'.published = 0
           /\ ~us'.confirmOpen
           /\ ~us'.loading
      /\ \A i \in Slots :
           (cycles[i].pc = "free" /\ cycles'[i].pc # "free") =>
             us.confirmOpen /\ ev'.op = "performUploadAndAnalyze" ]_vars

C5_Witness ==
  /\ ev.op = "cancelConfirm"
  /\ ~us.confirmOpen /\ ~us.loading
  /\ localStorage.analysisMonth # ""
  /\ \A i \in Slots : cycles[i].pc = "free"

\* C6: a submit with an invalid selection ends with a validation message and
\* a closed dialog and sends nothing; the check of the submit handler gives a
\* message for every invalid selection (those the disabled button keeps from
\* it included); and the dialog is open only over a valid selection.
C6_InvalidRejected ==
  /\ ( /\ ev.op = "handleUploadClick"
       /\ ~ValidSelection(us.typeFichier, us.mois, us.annee, us.files) ) =>
       /\ us.error \in { MsgFields, MsgNoFile, MsgExt }
       /\ ~us.confirmOpen
       /\ ev.sent = << >>
       /\ \A i \in Slots : cycles[i].pc = "free" \/ cycles[i].orphan
  /\ us.confirmOpen => ValidSelection(us.typeFichier, us.mois, us.annee, us.files)
  /\ \A sel \in Selections :
       ~ValidSelection(sel.typeFichier, sel.mois, sel.annee, sel.files) =>
         ValidationMessage(sel.typeFichier, sel.mois, sel.annee, sel.files)
           \in { MsgFields, MsgNoFile, MsgExt }

C6_Witness ==
  /\ ev.op = "handleUploadClick"
  /\ us.files = << NameUpper, NameBare >>
  /\ us.error = MsgExt
  /\ ~us.confirmOpen

\* The component of a listener is mounted.
IsMounted(l) == IF l = "Dashboard" THEN dash.mounted ELSE dash.showAnalysis

\* C7: at a publish a subscriber that is mounted receives the event exactly
\* once, with the published period, and one that is not mounted (never
\* mounted, or unmounted before) receives nothing; a mounted subscriber is
\* registered exactly once and an unmounted one not at all.
C7_DeliveredToMounted ==
  [][ /\ ev'.op = "EtlOk" =>
           /\ \A l \in Listeners :
                ev'.deliv[l] = IF IsMounted(l) THEN ev'.published ELSE 0
           /\ ev'.published = 1
           /\ dash.mounted => dash'.period = ev'.payload
           /\ (dash.showAnalysis /\ dash'.showAnalysis) =>
                /\ alerts'.periode = ev'.payload
                /\ summary'.mois = ev'.payload.mois
                /\ summary'.annee = ev'.payload.annee
      /\ \A l \in Listeners :
           Count(listeners, l) = IF IsMounted(l) THEN 1 ELSE 0 ]_vars

C7_Witness ==
  /\ ev.op = "EtlOk"
  /\ ev.published = 1
  /\ \A l \in Listeners : ev.deliv[l] = 0
  /\ ~dash.mounted

\* C8 (as stated): after a publish of P every panel that is mounted has sent
\* a new fetch for P.
C8_EveryPanelRefetches ==
  (ev.op = "EtlOk" /\ dash.showAnalysis) =>
    \A op \in { "anomalies", "alerts", "summary" } :
      \E k \in DOMAIN ev.sent :
        /\ ev.sent[k].op = op
        /\ ev.sent[k].mois = ev.payload.mois
        /\ ev.sent[k].annee = ev.payload.annee

RemoteOps == { "uploadExcels", "listFiles", "deleteFile" }

\* C9 (as stated): every remote operation sends its request with
\* "Bearer <token>" when a token is stored and with no credential otherwise,
\* and throws nothing locally when there is none.
C9_CredentialAttached ==
  ev.op \in RemoteOps =>
    /\ ev.thrown # MsgToken
    /\ \A k \in DOMAIN ev.sent :
         ev.sent[k].auth =
           IF localStorage.token # NoToken THEN "Bearer " \o localStorage.token
           ELSE ""

\* C10 (as stated): uploadExcels fails with a validation error, before any
\* request, when the selection is invalid.
C10_ServiceValidates ==
  ( /\ ev.op = "uploadExcels"
    /\ ~ValidSelection(ev.input.typeFichier, ev.input.mois,
                       ev.input.annee, ev.input.files) ) =>
    /\ ev.thrown # NoMessage
    /\ ev.sent = << >>

MountOps == { "handleLogin", "OpenDashboard" }

\* The three reads of the active period at mount.
PeriodReads(ls) ==
  { readStoredPeriod(ls), DashboardInitialPeriod(ls), SummaryInitialPeriod(ls) }

Shows(data, p) == data = DataFor(p)

SummaryPeriod == [ mois |-> summary.mois, annee |-> summary.annee ]

\* C12 (as stated): a response that arrives after the response to a newer
\* request of the same panel is discarded; so once every request of a panel
\* has been answered and the panel shows data without an error, the data are
\* the response to the request issued last, the one for the panel's period.
C12_LatestRequestWins ==
  dash.showAnalysis =>
    /\ ( /\ Len(anomalies.inflight) = 0 /\ ~anomalies.loading
         /\ anomalies.error = NoMessage /\ anomalies.items # NoData ) =>
         Shows(anomalies.items, dash.period)
    /\ ( /\ Len(alerts.inflight) = 0 /\ ~alerts.loading
         /\ alerts.error = NoMessage /\ alerts.items # NoData ) =>
         Shows(alerts.items, alerts.periode)
    /\ ( /\ Len(summary.inflight) = 0 /\ ~summary.loading
         /\ summary.error = NoMessage /\ summary.summary # NoData ) =>
         Shows(summary.summary, SummaryPeriod)

PanelFails == { "AnomaliesFail", "AlertsFail", "SummaryFail" }

\* C13: a step in which a fetch of a panel fails sets that panel's error and
\* changes nothing but that panel: the two sibling panels, the Dashboard, the
\* upload section, the cycles, the listeners, the route and localStorage are
\* as before, and nothing is thrown.
C13_FailureStaysInPanel ==
  [][ ev'.op \in PanelFails =>
        /\ << localStorage, route, dash, us, cycles, listeners >>'
             = << localStorage, route, dash, us, cycles, listeners >>
        /\ ev'.thrown = NoMessage
        /\ ev'.published = 0
        /\ ev'.op = "AnomaliesFail" =>
             /\ alerts' = alerts /\ summary' = summary
             /\ anomalies'.error # NoMessage /\ ~anomalies'.loading
             /\ anomalies'.items = anomalies.items
        /\ ev'.op = "AlertsFail" =>
             /\ anomalies' = anomalies /\ summary' = summary
             /\ alerts'.error # NoMessage
             /\ alerts'.items = alerts.items
        /\ ev'.op = "SummaryFail" =>
             /\ anomalies' = anomalies /\ alerts' = alerts
             /\ summary'.error # NoMessage /\ ~summary'.loading
             /\ summary'.summary = NoData ]_vars

C13_Witness ==
  /\ ev.op = "AlertsFail"
  /\ alerts.error # NoMessage
  /\ summary.summary # NoData /\ ~summary.loading /\ summary.error = NoMessage
  /\ anomalies.items # NoData /\ anomalies.error = NoMessage
  /\ us.mounted /\ us.error = NoMessage

\* C14 (as stated): when a cycle of the mounted upload section ends, by
\* success, by a failure of the upload or of the analysis, or by a cancel at
\* the dialog, the list of selected files is empty.
C14_SelectionDiscarded ==
  ( /\ ev.op \in CycleEnds \cup { "cancelConfirm" }
    /\ ~ev.orphan
    /\ us.mounted ) =>
    us.files = << >>

\* C15 (as stated): the failure reason of a cycle stays on display, as it
\* is, under every operation until the next submit (handleUploadClick): no
\* other step of the mounted upload section removes or changes it.
C15_ErrorStaysUntilSubmit ==
  ev.op # "handleUploadClick" => ev.replaced = NoMessage

\* C16 (as stated): no step other than the publish of a successful cycle
\* writes, changes or removes the entries analysisMonth and analysisYear, the
\* logout operations included.
C16_SingleWriter ==
  ev.op # "EtlOk" => ev.erased = NoPeriod

CycleRequests(requests) ==
  { k \in DOMAIN requests : requests[k].op \in { "upload", "etl" } }

\* C19: the orchestrator never retries or polls. The upload is posted only by
\* the confirmation of a submit, the analysis only by the upload's success; a
\* failure sends nothing and ends the call, and from a failure until the next
\* submit the dialog is closed and no call of the component is waiting.
C19_NoRetry ==
  /\ \A k \in CycleRequests(ev.sent) :
        /\ ev.sent[k].op = "upload" =>
              ev.op = "performUploadAndAnalyze" /\ us.confirmOpen /\ ~us.failure
        /\ ev.sent[k].op = "etl" => ev.op = "UploadOk"
  /\ ev.op \in { "UploadFail", "EtlFail" } =>
        /\ ev.sent = << >>
        /\ cycles[ev.cyc].pc = "free"
  /\ us.failure =>
        /\ ~us.confirmOpen
        /\ ~us.loading
        /\ \A i \in Slots : cycles[i].pc = "free" \/ cycles[i].orphan

C19_Witness ==
  /\ ev.op = "EtlFail"
  /\ ~ev.orphan
  /\ Len(ev.reqs) = 2
  /\ ev.sent = << >>
  /\ us.failure
  /\ \A i \in Slots : cycles[i].pc = "free"

\* A period with its month and its year.
Full(p) == p.mois # "" /\ p.annee # 0

\* Details of a notification that lack the month, the year, or both.
PartialDetails ==
  { [ mois |-> "", annee |-> NowYear ], [ mois |-> monthNameFR, annee |-> 0 ],
    NoPeriod }

\* C20: a period is never partially set. The two storage entries are there
\* together or not at all; a call that is waiting, and the period a step
\* stores and publishes, have a month and a year; a notification lacking one
\* of them changes no subscriber and sends nothing; and every mounted
\* component's period has both fields.
C20_PeriodWhole ==
  /\ (localStorage.analysisMonth = "") <=> (Len(localStorage.analysisYear) = 0)
  /\ localStorage.analysisMonth # "" => Full(StoredPeriod(localStorage))
  /\ \A i \in Slots : cycles[i].pc # "free" =>
        Full([ mois |-> cycles[i].mois, annee |-> cycles[i].annee ])
  /\ ev.published > 0 =>
        /\ Full(ev.payload)
        /\ StoredPeriod(localStorage) = ev.payload
  /\ \A d \in PartialDetails :
        /\ OnPeriod(dash.period, d) = dash.period
        /\ OnPeriod(alerts.periode, d) = alerts.periode
        /\ SummaryOnChange(summary, localStorage, d) = summary
        /\ SummaryRequests(localStorage, d) = << >>
  /\ dash.mounted => Full(dash.period)
  /\ dash.showAnalysis =>
        /\ Full(alerts.periode)
        /\ Full([ mois |-> summary.mois, annee |-> summary.annee ])

C20_Witness ==
  /\ ev.op = "EtlOk"
  /\ ev.published = 1
  /\ ev.payload = [ mois |-> monthNameFR, annee |-> NowYear - 1 ]
  /\ StoredPeriod(localStorage) = ev.payload
  /\ dash.showAnalysis
  /\ alerts.periode = ev.payload
  /\ dash.period = ev.payload

\* The period of AnalyticsSummary.
SummaryShown == [ mois |-> summary.mois, annee |-> summary.annee ]

\* C18: a successful cycle runs in one order: the upload and its response,
\* the analysis request and its response, the write of the two entries, the
\* publish. A call waits for the upload having sent only the upload, for the
\* analysis having sent the upload and then the analysis, and only the step
\* that ends a successful cycle publishes; by then the store holds the
\* payload, so the handlers the publish ran, the requests they sent, and
\* every Dashboard and panel mounted from then on have the stored period.
C18_OrderedCycle ==
  /\ \A i \in Slots :
        /\ cycles[i].pc = "awaitUpload" => Ops(cycles[i].reqs) = << "upload" >>
        /\ cycles[i].pc = "awaitEtl" => Ops(cycles[i].reqs) = << "upload", "etl" >>
  /\ ev.op # "EtlOk" => ev.published = 0
  /\ ev.op = "EtlOk" =>
        /\ Ops(ev.reqs) = << "upload", "etl" >>
        /\ ev.published = 1
        /\ StoredPeriod(localStorage) = ev.payload
        /\ \A k \in DOMAIN ev.sent :
              [ mois |-> ev.sent[k].mois, annee |-> ev.sent[k].annee ] = ev.payload
  /\ localStorage.analysisMonth # "" =>
        /\ dash.mounted => dash.period = StoredPeriod(localStorage)
        /\ dash.showAnalysis =>
              /\ alerts.periode = StoredPeriod(localStorage)
              /\ SummaryShown = StoredPeriod(localStorage)

C18_Witness ==
  /\ ev.op = "OpenDashboard"
  /\ StoredPeriod(localStorage) = [ mois |-> monthNameFR, annee |-> NowYear - 1 ]
  /\ dash.showAnalysis
  /\ dash.period = StoredPeriod(localStorage)
  /\ alerts.periode = StoredPeriod(localStorage)
  /\ SummaryShown = StoredPeriod(localStorage)
  /\ Len(ev.sent) = 3

PanelOps == { "anomalies", "alerts", "summary" }

\* C21 (as stated): a mounted panel learns of a new period only from a
\* publish. The store is written by the publish alone and read at mount, so
\* every fetch a panel sends is for the period the store gives: the one last
\* published, or the current month and year when none was.
C21_PublishSolePath ==
  \A k \in DOMAIN ev.sent :
    ev.sent[k].op \in PanelOps =>
      [ mois |-> ev.sent[k].mois, annee |-> ev.sent[k].annee ]
        = readStoredPeriod(localStorage)

\* C23 (as stated): whenever AnalyticsSummary is not loading, the summary it
\* shows is the response to the request for the period of its label and
\* filters.
C23_SummaryMatchesLabel ==
  (dash.showAnalysis /\ ~summary.loading /\ summary.summary # NoData) =>
     Shows(summary.summary, SummaryShown)

\* The calls of performUploadAndAnalyze that are waiting for a response.
InFlight == { i \in Slots : cycles[i].pc # "free" }

\* C22 (as stated): at most one cycle is in flight at any time, because while
\* one is, the section that is mounted is loading with its dialog open, so
\* that neither of its buttons starts another and the dialog stays.
C22_OneCycleInFlight ==
  /\ Cardinality(InFlight) <= 1
  /\ (InFlight # { } /\ us.mounted) => us.loading /\ us.confirmOpen

\* C24 (as stated): in UploadSection the success message and the error
\* message are never both non-empty.
C24_OneMessage ==
  us.mounted => (us.successMessage = NoMessage \/ us.error = NoMessage)

LogoutOps == { "DashboardLogout", "NavbarLogout", "logout" }

\* C25 (as stated): the Dashboard is rendered only while a token is stored.
C25_RenderedOnlyWithToken ==
  dash.mounted => localStorage.token # NoToken

\* C25 (amended): the Dashboard mounts only with a token stored, and opening
\* /dashboard without one redirects to "/" and mounts nothing; every logout
\* operation leaves no token stored, and the two that navigate leave the
\* Dashboard unmounted. (authService.logout alone does not unmount a
\* Dashboard that is shown.)
C25_DashboardBehindToken ==
  /\ ev.op \in MountOps =>
        /\ dash.mounted /\ route = "/dashboard"
        /\ localStorage.token # NoToken
  /\ ev.op = "Redirect" =>
        /\ localStorage.token = NoToken
        /\ ~dash.mounted /\ route = "/"
  /\ ev.op \in LogoutOps => localStorage.token = NoToken
  /\ ev.op \in { "DashboardLogout", "NavbarLogout" } =>
        ~dash.mounted /\ route = "/"
  /\ route = "/" => ~dash.mounted

C25_Witness ==
  /\ ev.op = "Redirect"
  /\ localStorage.analysisMonth # ""
  /\ localStorage.token = NoToken
  /\ ~dash.mounted

AnalysisRoles == { "comptable", "dg", "membre", "utilisateur", "user", "admin" }

\* The steps in which the Dashboard renders and resolves the role anew.
Renders ==
  \/ ev.op \in MountOps
  \/ ev.op = "EtlOk" /\ ev.deliv["Dashboard"] > 0

\* C26: when the Dashboard renders, the upload section is shown exactly when
\* the resolved role is "comptable" and the analysis panels exactly when it is
\* one of comptable, dg, membre, utilisateur, user, admin; panels that are not
\* shown are not mounted, and a fetch comes only from panels that are shown
\* or, inside a publish, from a panel that was shown when the event reached
\* it; and a cycle, the only writer of the store and the only publisher,
\* starts only in a section that is shown.
C26_RoleGates ==
  /\ Renders =>
        /\ dash.showUpload <=> getRole(localStorage) = "comptable"
        /\ dash.showAnalysis <=> getRole(localStorage) \in AnalysisRoles
  /\ us.mounted <=> dash.showUpload
  /\ ~dash.showAnalysis =>
        /\ anomalies = AnomaliesUnmounted
        /\ alerts = AlertsUnmounted
        /\ summary = SummaryUnmounted
  /\ \A k \in DOMAIN ev.sent :
        ev.sent[k].op \in PanelOps =>
          \/ dash.showAnalysis
          \/ ev.op = "EtlOk" /\ ev.deliv["AnalyticsSummary"] > 0
  /\ ev.op = "performUploadAndAnalyze" => us.mounted /\ dash.showUpload
  /\ ev.published > 0 =>
        /\ ev.op = "EtlOk"
        /\ Ops(ev.reqs) = << "upload", "etl" >>

C26_Witness ==
  /\ ev.op = "handleLogin"
  /\ getRole(localStorage) = "stagiaire"
  /\ dash.mounted
  /\ ~dash.showUpload /\ ~dash.showAnalysis
  /\ ~us.mounted
  /\ ev.sent = << >>

\* C27 (as stated): after a successful login whose response carries
\* user.role = R, the role the Dashboard resolves is R in lower case, and the
\* sections shown are those of that role.
C27_RoleOfLogin ==
  ev.op = "handleLogin" =>
     /\ getRole(localStorage) = toLowerCaseRole(localStorage.user)
     /\ dash.showUpload <=> toLowerCaseRole(localStorage.user) = "comptable"
     /\ dash.showAnalysis <=> toLowerCaseRole(localStorage.user) \in AnalysisRoles

\* C28 (as stated): a login attempt that does not navigate to /dashboard,
\* rejected or answered without a user role, stores no token of its own.
C28_FailedLoginStoresNothing ==
  ev.op \in { "LoginRejected", "LoginNoRole" } => ev.stored = NoToken

\* The list without its entry at position p (the list itself for p = 0).
Dropped(list, p) == IF p = 0 THEN list ELSE RemoveAt(list, p)

\* C29: handleDelete on a listed file. Declined: no request, nothing
\* changes. Confirmed: one DELETE for that file, the list as it was. The
\* request fails: the list as it was and an error message. It succeeds: the
\* entry with the id of the file is gone, and the other entries remain, in
\* their order.
C29_DeleteFrame ==
  [][ /\ ev'.op = "declineDelete" => ev'.sent = << >> /\ us' = us
      /\ ev'.op = "handleDelete" =>
           /\ Len(ev'.sent) = 1
           /\ ev'.sent[1].op = "delete"
           /\ \E k \in DOMAIN us.deleteList : ev'.sent[1].id = us.deleteList[k]
           /\ us'.deleteList = us.deleteList
      /\ ev'.op = "DeleteFail" =>
           /\ ev'.sent = << >>
           /\ us'.deleteList = us.deleteList
           /\ us'.error # NoMessage
      /\ ev'.op = "DeleteOk" =>
           \E k \in DOMAIN us.deleting :
             /\ us'.deleting = RemoveAt(us.deleting, k)
             /\ \A j \in DOMAIN us'.deleteList : us'.deleteList[j] # us.deleting[k]
             /\ \E p \in 0..Len(us.deleteList) :
                  /\ p # 0 => us.deleteList[p] = us.deleting[k]
                  /\ us'.deleteList = Dropped(us.deleteList, p) ]_vars

C29_Witness ==
  /\ ev.op = "DeleteOk"
  /\ us.deleteList = << 3, 2 >>
  /\ us.successMessage = MsgDeleted

====
